---------------------------- MODULE Spec2Model ----------------------------
(***************************************************************************)
(* A model of src/src/selector.js: the selector parser (parseSelector,     *)
(* parseCompoundSelector), the predicate tables, the matcher               *)
(* (isMatchedByCompoundSelector, isMatchedByComplexSelector) and the two   *)
(* entry points find and match, run against a small host document.         *)
(*                                                                         *)
(* A JavaScript string is a sequence of one-character strings.  The        *)
(* placeholder character "\0" is the token NUL.  The values undefined and  *)
(* null are the one-token sequences UNDEF and NULL, which no string of     *)
(* characters equals.  A call that throws yields the name of the error.    *)
(***************************************************************************)
EXTENDS Integers, Sequences, FiniteSets, TLC

VARIABLES
    doc,                   \* the host document the engine queries (never changed)
    strict,                \* whether the engine honours "use strict" (line 15)
    selector,              \* the selector argument of find and match
    context,               \* the context argument of find and match
    element,               \* the element argument of match
    pc,                    \* where the running call is; "idle" between calls
    parsedSelectors,       \* find's and match's parsed selectors
    contexts,              \* the contexts of the running call
    si,                    \* the index of the complex selector being processed
    ci,                    \* the index of the context being processed
    lastCompoundSelector,  \* find's popped last compound selector
    elementsToBeFiltered,  \* find's candidates in the current context
    matchedElements,       \* find's result so far
    findResult,            \* how find ended
    matchResult            \* how match ended

vars == <<doc, strict, selector, context, element, pc, parsedSelectors, contexts,
          si, ci, lastCompoundSelector, elementsToBeFiltered, matchedElements,
          findResult, matchResult>>

NUL == "NUL"
UNDEF == <<"undefined-value">>
NULL == <<"null-value">>

Digits == {"0", "1", "2", "3", "4", "5", "6", "7", "8", "9"}
Lower == {"a", "b", "c", "d", "e", "f", "g", "h", "i", "j", "k", "l", "m",
          "n", "o", "p", "q", "r", "s", "t", "u", "v", "w", "x", "y", "z"}
Upper == {"A", "B", "C", "D", "E", "F", "G", "H", "I", "J", "K", "L", "M",
          "N", "O", "P", "Q", "R", "S", "T", "U", "V", "W", "X", "Y", "Z"}
\* [a-zA-Z]
Alpha == Lower \cup Upper
\* \w
WordChars == Alpha \cup Digits \cup {"_"}
\* \s, as far as the model's alphabet goes: space and tab
WS == {" ", "\t"}
Quotes == {"'", "\""}

\* String.prototype.toLowerCase on one character
LowerOf(c) ==
    CASE c = "A" -> "a" [] c = "B" -> "b" [] c = "C" -> "c" [] c = "D" -> "d"
      [] c = "E" -> "e" [] c = "F" -> "f" [] c = "G" -> "g" [] c = "H" -> "h"
      [] c = "I" -> "i" [] c = "J" -> "j" [] c = "K" -> "k" [] c = "L" -> "l"
      [] c = "M" -> "m" [] c = "N" -> "n" [] c = "O" -> "o" [] c = "P" -> "p"
      [] c = "Q" -> "q" [] c = "R" -> "r" [] c = "S" -> "s" [] c = "T" -> "t"
      [] c = "U" -> "u" [] c = "V" -> "v" [] c = "W" -> "w" [] c = "X" -> "x"
      [] c = "Y" -> "y" [] c = "Z" -> "z" [] OTHER -> c

ToLowerCase(s) == [i \in 1..Len(s) |-> LowerOf(s[i])]

\* The string a value becomes when it is concatenated to a string.
StringOf(v) ==
    IF v = UNDEF THEN <<"u", "n", "d", "e", "f", "i", "n", "e", "d">>
    ELSE IF v = NULL THEN <<"n", "u", "l", "l">>
    ELSE v

\* s.substring(i - 1): the characters of s from the 1-based position i on
From(s, i) == SubSeq(s, i, Len(s))

\* String.prototype.indexOf, 1-based; 0 when t does not occur in s
IndexOf(s, t) ==
    LET hits == {i \in 1..(Len(s) - Len(t) + 1) : SubSeq(s, i, i + Len(t) - 1) = t}
    IN IF hits = {} THEN 0 ELSE CHOOSE i \in hits : \A j \in hits : i <= j

\* the position of the first character c of s at or after i; Len(s) + 1 when none
RECURSIVE NextAt(_, _, _)
NextAt(s, cs, i) ==
    IF i > Len(s) THEN Len(s) + 1
    ELSE IF s[i] \in cs THEN i
    ELSE NextAt(s, cs, i + 1)

\* the length of the run of characters of cs that starts at position i
RECURSIVE Run(_, _, _)
Run(s, cs, i) ==
    IF i > Len(s) \/ s[i] \notin cs THEN 0 ELSE 1 + Run(s, cs, i + 1)

(***************************************************************************)
(* parseSelector, line 75: the quoted strings are saved and replaced by    *)
(* the placeholder.                                                        *)
(***************************************************************************)

\* '[^'\\]*(?:\\.[^'\\]*)*' from the character after the opening quote q:
\* the position of the closing quote, 0 when the literal is not closed
RECURSIVE QuoteEnd(_, _, _)
QuoteEnd(s, q, j) ==
    IF j > Len(s) THEN 0
    ELSE IF s[j] = q THEN j
    ELSE IF s[j] = "\\" THEN (IF j + 1 <= Len(s) THEN QuoteEnd(s, q, j + 2) ELSE 0)
    ELSE QuoteEnd(s, q, j + 1)

\* match.replace(/\\(.)/g, "$1")
RECURSIVE Unescape(_)
Unescape(s) ==
    IF s = <<>> THEN <<>>
    ELSE IF Head(s) = "\\" /\ Len(s) >= 2 THEN <<s[2]>> \o Unescape(From(s, 3))
    ELSE <<Head(s)>> \o Unescape(Tail(s))

RECURSIVE ExtractFrom(_, _, _, _)
ExtractFrom(s, i, out, strs) ==
    IF i > Len(s) THEN [text |-> out, strings |-> strs]
    ELSE LET e == IF s[i] \in Quotes THEN QuoteEnd(s, s[i], i + 1) ELSE 0
         IN IF e > 0
            THEN ExtractFrom(s, e + 1, Append(out, NUL),
                             Append(strs, Unescape(SubSeq(s, i, e))))
            ELSE ExtractFrom(s, i + 1, Append(out, s[i]), strs)

ExtractStrings(s) == ExtractFrom(s, 1, <<>>, <<>>)

(***************************************************************************)
(* parseSelector, line 78: /\s*([\s>+~(),]|^|$)\s*/g replaced by "$1".     *)
(* At a position with w whitespace characters before a character c: c in   *)
(* [>+~(),] takes the whitespace on both sides; the end of the string      *)
(* takes the whitespace; any other c leaves the last whitespace character  *)
(* of the run (the leading \s* gives one back to the group).               *)
(***************************************************************************)
TrimPunct == {">", "+", "~", "(", ")", ","}

RECURSIVE TrimFrom(_, _, _)
TrimFrom(s, i, out) ==
    IF i > Len(s) THEN out
    ELSE LET w == Run(s, WS, i)
             j == i + w
         IN IF j > Len(s) THEN out
            ELSE IF s[j] \in TrimPunct
                 THEN TrimFrom(s, j + 1 + Run(s, WS, j + 1), Append(out, s[j]))
            ELSE IF w > 0 THEN TrimFrom(s, j, Append(out, s[j - 1]))
            ELSE TrimFrom(s, i + 1, Append(out, s[i]))

TrimWhitespace(s) == TrimFrom(s, 1, <<>>)

(***************************************************************************)
(* parseSelector, line 79: /([\s>+~,]|[^(]\+|^)([\[#.:])/g replaced by     *)
(* "$1*$2": the implied universal selector.                                *)
(***************************************************************************)
SimpleStart == {"[", "#", ".", ":"}

RECURSIVE UniversalFrom(_, _, _)
UniversalFrom(s, i, out) ==
    IF i > Len(s) THEN out
    ELSE IF s[i] \in (WS \cup {">", "+", "~", ","}) /\ i + 1 <= Len(s)
            /\ s[i + 1] \in SimpleStart
         THEN UniversalFrom(s, i + 2, out \o <<s[i], "*", s[i + 1]>>)
    ELSE IF s[i] # "(" /\ i + 2 <= Len(s) /\ s[i + 1] = "+" /\ s[i + 2] \in SimpleStart
         THEN UniversalFrom(s, i + 3, out \o <<s[i], "+", "*", s[i + 2]>>)
    ELSE IF i = 1 /\ s[1] \in SimpleStart
         THEN UniversalFrom(s, 2, out \o <<"*", s[1]>>)
    ELSE UniversalFrom(s, i + 1, Append(out, s[i]))

AddUniversal(s) == UniversalFrom(s, 1, <<>>)

\* String.prototype.split with the separators at the positions seps
RECURSIVE SplitAt(_, _, _, _)
SplitAt(s, seps, i, from) ==
    IF i > Len(s) THEN <<SubSeq(s, from, Len(s))>>
    ELSE IF i \in seps THEN <<SubSeq(s, from, i - 1)>> \o SplitAt(s, seps, i + 1, i + 1)
    ELSE SplitAt(s, seps, i + 1, from)

\* line 80: .split(",")
SplitGroup(s) == SplitAt(s, {i \in 1..Len(s) : s[i] = ","}, 1, 1)

\* The text of the selector group after lines 75-80, and the saved strings.
Normalized(x) ==
    [selectors |-> SplitGroup(AddUniversal(TrimWhitespace(x.text))),
     strings |-> x.strings]

Normalize(sel) == Normalized(ExtractStrings(sel))

(***************************************************************************)
(* parseSelector, lines 82-93: the combinators and the compound selectors  *)
(* of one complex selector.                                                *)
(***************************************************************************)

\* /[ >+~](?![=\d])/g: the positions of the combinators
CombinatorPositions(s) ==
    {i \in 1..Len(s) : /\ s[i] \in {" ", ">", "+", "~"}
                       /\ ~(i + 1 <= Len(s) /\ s[i + 1] \in ({"="} \cup Digits))}

RECURSIVE Pick(_, _, _)
Pick(s, at, i) ==
    IF i > Len(s) THEN <<>>
    ELSE (IF i \in at THEN <<s[i]>> ELSE <<>>) \o Pick(s, at, i + 1)

\* line 84 with the pattern /[ >+~]/g, which lacks the lookahead (?![=\d])
\* that line 88 splits by
MatchEveryCombinator(s) == Pick(s, {i \in 1..Len(s) : s[i] \in {" ", ">", "+", "~"}}, 1)

\* line 84: selector.match(...) || []
MatchCombinators(s) == Pick(s, CombinatorPositions(s), 1)

\* line 88: selector.split(...)
SplitCompounds(s) == SplitAt(s, CombinatorPositions(s), 1, 1)

(***************************************************************************)
(* parseCompoundSelector, lines 104-154.                                   *)
(***************************************************************************)

\* line 105: .replace(/([\[:.#])/g, "\n$1").split("\n"): a piece starts at
\* every character of [\[:.#]; the first piece is what precedes them.
SimpleSelectors(s) ==
    LET starts == {i \in 1..Len(s) : s[i] \in SimpleStart}
        cut(i) == SubSeq(s, i, NextAt(s, SimpleStart, i + 1) - 1)
        RECURSIVE pieces(_)
        pieces(i) == IF i > Len(s) THEN <<>>
                     ELSE (IF i \in starts THEN <<cut(i)>> ELSE <<>>) \o pieces(i + 1)
    IN <<SubSeq(s, 1, NextAt(s, SimpleStart, 1) - 1)>> \o pieces(1)

\* lines 115-117: simpleSelector.replace("\0", strings.pop()); strings is
\* undefined in the call of line 353, where the pop throws.
\* The result: the selector, the strings left, and whether it threw.
RestoreString(simple, strings) ==
    LET at == NextAt(simple, {NUL}, 1)
    IN IF at > Len(simple) THEN [s |-> simple, strings |-> strings, thrown |-> FALSE]
       ELSE IF strings = UNDEF THEN [s |-> simple, strings |-> strings, thrown |-> TRUE]
       ELSE LET popped == IF strings = <<>> THEN StringOf(UNDEF)
                          ELSE strings[Len(strings)]
                rest == IF strings = <<>> THEN <<>>
                        ELSE SubSeq(strings, 1, Len(strings) - 1)
            IN [s |-> SubSeq(simple, 1, at - 1) \o popped \o From(simple, at + 1),
                strings |-> rest, thrown |-> FALSE]

\* line 121: /^\[(-?[a-zA-Z_][\w-]*)(?:([~^$*|]?=)['"](.*)['"])?\]$/
\* <<>> when the token does not match (match returns null).
AttributeOps == {"~", "^", "$", "*", "|"}
MatchAttribute(t) ==
    LET n0 == IF Len(t) >= 2 /\ t[2] = "-" THEN 3 ELSE 2
        nameOk == n0 <= Len(t) /\ t[n0] \in (Alpha \cup {"_"})
        ne == n0 + 1 + Run(t, WordChars \cup {"-"}, n0 + 1)
        name == SubSeq(t, 2, ne - 1)
        hasOp == ne <= Len(t) /\ t[ne] \in AttributeOps
        eq == IF hasOp THEN ne + 1 ELSE ne
        L == Len(t)
    IN IF ~nameOk THEN <<>>
       ELSE IF ne = L /\ t[L] = "]"
            THEN <<[attribute |-> name, operator |-> <<>>, value |-> UNDEF]>>
       ELSE IF /\ eq <= L /\ t[eq] = "="
               /\ eq + 3 <= L
               /\ t[eq + 1] \in Quotes
               /\ t[L - 1] \in Quotes
               /\ t[L] = "]"
            THEN <<[attribute |-> name, operator |-> SubSeq(t, ne, eq),
                    value |-> SubSeq(t, eq + 2, L - 2)]>>
       ELSE <<>>

\* \d*n(?:[+-]\d+)?
IsAnB(p) ==
    LET d == Run(p, Digits, 1)
        L == Len(p)
    IN /\ d + 1 <= L /\ p[d + 1] = "n"
       /\ \/ L = d + 1
          \/ /\ L >= d + 3
             /\ p[d + 2] \in {"+", "-"}
             /\ Run(p, Digits, d + 3) = L - (d + 2)

\* line 129: /^:([\w_-]+)(?:\(((?:\d*n(?:[+-]\d+)?)|(?:[a-zA-Z]+))\))?$/
MatchPseudo(t) ==
    LET r == Run(t, WordChars \cup {"-"}, 2)
        name == SubSeq(t, 2, r + 1)
        L == Len(t)
        p == SubSeq(t, r + 3, L - 1)
    IN IF r = 0 THEN <<>>
       ELSE IF L = r + 1 THEN <<[name |-> name, parameter |-> UNDEF]>>
       ELSE IF /\ L >= r + 4 /\ t[r + 2] = "(" /\ t[L] = ")"
               /\ (IsAnB(p) \/ Run(p, Alpha, 1) = Len(p))
            THEN <<[name |-> name, parameter |-> p]>>
       ELSE <<>>

\* lines 119-145: the switch on the first character of the simple selector
\* s, with the match of its regular expression (<<>> for null) when it has
\* one; attribute[1] and pseudo[1] throw a TypeError when the match is null.
AddToken(c, s, matched) ==
    CASE s[1] = "[" ->
            IF matched = <<>> THEN [c EXCEPT !.error = "TypeError"]
            ELSE [c EXCEPT !.attributeSelectors = Append(@, matched[1])]
      [] s[1] = ":" ->
            IF matched = <<>> THEN [c EXCEPT !.error = "TypeError"]
            ELSE [c EXCEPT !.pseudoSelectors = Append(@, matched[1])]
      [] s[1] = "." ->
            [c EXCEPT !.attributeSelectors =
                 Append(@, [attribute |-> <<"c", "l", "a", "s", "s", "N", "a", "m", "e">>,
                            operator |-> <<"~", "=">>,
                            value |-> From(s, 2)])]
      [] s[1] = "#" -> [c EXCEPT !.idSelector = From(s, 2)]

\* lines 119-134: the regular expression the first character selects
MatchToken(s) ==
    IF s[1] = "[" THEN MatchAttribute(s)
    ELSE IF s[1] = ":" THEN MatchPseudo(s)
    ELSE <<>>

\* lines 115-145 for the simple selector whose string has been restored (r)
AddRestored(c, r) ==
    IF r.thrown THEN [c EXCEPT !.error = "TypeError"]
    ELSE AddToken([c EXCEPT !.strings = r.strings], r.s, MatchToken(r.s))

\* lines 111-146: one simple selector added to the compound selector c
AddSimple(c, simple) == AddRestored(c, RestoreString(simple, c.strings))

RECURSIVE AddSimples(_, _)
AddSimples(c, simples) ==
    IF simples = <<>> \/ c.error # "" THEN c
    ELSE AddSimples(AddSimple(c, Head(simples)), Tail(simples))

\* lines 106-153: the first piece is the type selector, the others are added
ParseSimples(simples, strings) ==
    AddSimples([typeSelector |-> Head(simples),
                idSelector |-> <<>>,
                attributeSelectors |-> <<>>,
                pseudoSelectors |-> <<>>,
                strings |-> strings,
                error |-> ""], Tail(simples))

\* parseCompoundSelector(compoundSelector, strings): the compound selector,
\* with the strings it left and the error it threw ("" when none).
ParseCompoundSelector(compoundSelector, strings) ==
    ParseSimples(SimpleSelectors(compoundSelector), strings)

\* The fields of a compound selector that parseCompoundSelector returns.
Compound(c) == [typeSelector |-> c.typeSelector, idSelector |-> c.idSelector,
                attributeSelectors |-> c.attributeSelectors,
                pseudoSelectors |-> c.pseudoSelectors]

\* lines 88-90: the compound selectors of one complex selector, in order;
\* c is the one just parsed
RECURSIVE ParseCompounds(_, _, _)
AfterCompound(c, texts, done) ==
    IF c.error # ""
    THEN [compoundSelectors |-> done, strings |-> c.strings, error |-> c.error]
    ELSE ParseCompounds(texts, c.strings, Append(done, Compound(c)))

ParseCompounds(texts, strings, done) ==
    IF texts = <<>> THEN [compoundSelectors |-> done, strings |-> strings, error |-> ""]
    ELSE AfterCompound(ParseCompoundSelector(Head(texts), strings), Tail(texts), done)

\* lines 82-93: every complex selector of the group, in order; p holds the
\* compound selectors of the one whose text is given
RECURSIVE ParseComplexes(_, _, _)
AfterComplex(p, text, texts, done) ==
    IF p.error # "" THEN [parsedSelectors |-> done, error |-> p.error]
    ELSE ParseComplexes(texts, p.strings,
             Append(done, [combinators |-> MatchCombinators(text),
                           compoundSelectors |-> p.compoundSelectors]))

ParseComplexes(texts, strings, done) ==
    IF texts = <<>> THEN [parsedSelectors |-> done, error |-> ""]
    ELSE AfterComplex(ParseCompounds(SplitCompounds(Head(texts)), strings, <<>>),
                      Head(texts), Tail(texts), done)

\* lines 82-95 on the normalized selectors
ParseNormalized(n) == ParseComplexes(n.selectors, n.strings, <<>>)

\* parseSelector(selector): the parsed selectors, or the error thrown
ParseSelector(sel) == ParseNormalized(Normalize(sel))

(***************************************************************************)
(* The host document.  Node 0 is the document; the other nodes are         *)
(* numbered in document order.  doc.parentNode, doc.nodeType and           *)
(* doc.nodeName are functions of the node; doc.props[n] gives the          *)
(* properties element[attribute] reads, and a property a node does not     *)
(* have reads as undefined.                                                *)
(***************************************************************************)
Document == 0
NoNode == -1
ELEMENT_NODE == 1
TEXT_NODE == 3
DOCUMENT_NODE == 9

Nodes == DOMAIN doc.parentNode
Elements == {n \in Nodes : doc.nodeType[n] = ELEMENT_NODE}

\* node.parentNode
ParentNode(n) == doc.parentNode[n]

\* node.childNodes, as the set of the children (in document order by number)
ChildNodes(n) == {m \in Nodes : doc.parentNode[m] = n}

\* node.previousSibling and node.nextSibling
PreviousSibling(n) ==
    LET before == {m \in ChildNodes(ParentNode(n)) : m < n}
    IN IF before = {} THEN NoNode ELSE CHOOSE m \in before : \A k \in before : k <= m

NextSibling(n) ==
    LET after == {m \in ChildNodes(ParentNode(n)) : m > n}
    IN IF after = {} THEN NoNode ELSE CHOOSE m \in after : \A k \in after : m <= k

\* element[attribute]
Prop(n, attribute) ==
    IF attribute \in DOMAIN doc.props[n] THEN doc.props[n][attribute] ELSE UNDEF

IdName == <<"i", "d">>
ClassName == <<"c", "l", "a", "s", "s", "N", "a", "m", "e">>

RECURSIVE IsAncestor(_, _)
\* whether a is a proper ancestor of n
IsAncestor(a, n) ==
    IF n = NoNode \/ ParentNode(n) = NoNode THEN FALSE
    ELSE ParentNode(n) = a \/ IsAncestor(a, ParentNode(n))

\* the sequence of the numbers of S in increasing order
RECURSIVE Ordered(_)
Ordered(S) ==
    IF S = {} THEN <<>>
    ELSE LET m == CHOOSE x \in S : \A y \in S : x <= y
         IN <<m>> \o Ordered(S \ {m})

\* context.getElementsByTagName(name): the element descendants of the
\* context with that tag name (any case), all of them for "*", in document order
GetElementsByTagName(ctx, name) ==
    Ordered({n \in Elements :
                /\ IsAncestor(ctx, n)
                /\ \/ name = <<"*">>
                   \/ ToLowerCase(doc.nodeName[n]) = ToLowerCase(name)})

\* document.getElementById(id): the first element with the id, or null
GetElementById(id) ==
    LET hits == {n \in Elements : Prop(n, IdName) = id}
    IN IF hits = {} THEN NoNode ELSE CHOOSE n \in hits : \A m \in hits : n <= m

\* A boolean result; a call that throws yields "TypeError" or "ReferenceError".
B(b) == IF b THEN "true" ELSE "false"
Not(r) == IF r = "true" THEN "false" ELSE IF r = "false" THEN "true" ELSE r

(***************************************************************************)
(* isMatchedByAttributeSelector, lines 158-184.                            *)
(***************************************************************************)
IsMatchedByAttributeSelector(operator, n, attribute, value) ==
    IF n = NoNode THEN "TypeError"
    ELSE LET attributeValue == Prop(n, attribute)
         IN CASE operator = <<>> -> B(attributeValue # NULL)
              [] operator = <<"=">> -> B(attributeValue = value)
              [] operator = <<"~", "=">> ->
                    B(IndexOf(<<" ">> \o StringOf(attributeValue) \o <<" ">>,
                              <<" ">> \o StringOf(value) \o <<" ">>) # 0)
              [] operator = <<"^", "=">> ->
                    IF attributeValue = NULL THEN "false"
                    ELSE IF attributeValue = UNDEF THEN "TypeError"
                    ELSE B(IndexOf(attributeValue, StringOf(value)) = 1)
              [] operator = <<"$", "=">> ->
                    IF attributeValue = NULL THEN "false"
                    ELSE IF attributeValue = UNDEF \/ value = UNDEF THEN "TypeError"
                    ELSE B(/\ Len(value) <= Len(attributeValue)
                           /\ From(attributeValue,
                                   Len(attributeValue) - Len(value) + 1) = value)
              [] operator = <<"*", "=">> ->
                    IF attributeValue = NULL THEN "false"
                    ELSE IF attributeValue = UNDEF THEN "TypeError"
                    ELSE B(IndexOf(attributeValue, StringOf(value)) # 0)
              [] operator = <<"|", "=">> ->
                    IF attributeValue = NULL THEN "false"
                    ELSE IF attributeValue = UNDEF THEN "TypeError"
                    ELSE B(\/ attributeValue = value
                           \/ IndexOf(attributeValue, StringOf(value) \o <<"-">>) = 1)

(***************************************************************************)
(* isNthChild, lines 193-248.                                              *)
(***************************************************************************)
DigitValue(c) ==
    CASE c = "0" -> 0 [] c = "1" -> 1 [] c = "2" -> 2 [] c = "3" -> 3 [] c = "4" -> 4
      [] c = "5" -> 5 [] c = "6" -> 6 [] c = "7" -> 7 [] c = "8" -> 8 [] c = "9" -> 9

RECURSIVE DecimalValue(_, _)
DecimalValue(s, acc) ==
    IF s = <<>> THEN acc ELSE DecimalValue(Tail(s), 10 * acc + DigitValue(Head(s)))

\* parseInt(s): <<v>> for the number v of the leading sign and digits, <<>> for NaN
ParseInt(s) ==
    LET signed == s # <<>> /\ s[1] \in {"+", "-"}
        from == IF signed THEN 2 ELSE 1
        d == Run(s, Digits, from)
        v == DecimalValue(SubSeq(s, from, from + d - 1), 0)
    IN IF d = 0 THEN <<>>
       ELSE IF signed /\ s[1] = "-" THEN <<0 - v>> ELSE <<v>>

\* line 243: (counter < a && counter === b) || ((counter - b) % a === 0),
\* where % by 0 and anything with NaN is NaN.
NthTest(counter, a, b) ==
    /\ a # <<>> /\ b # <<>>
    /\ \/ counter < a[1] /\ counter = b[1]
       \/ /\ a[1] # 0
          /\ (counter - b[1]) % (IF a[1] < 0 THEN 0 - a[1] ELSE a[1]) = 0

\* lines 210-242 without a tag name: the 1-based position of the element
\* among the element children of its parent, from the end when reverse
Counter(n, reverse) ==
    1 + Cardinality({m \in ChildNodes(ParentNode(n)) :
                        /\ doc.nodeType[m] = ELEMENT_NODE
                        /\ IF reverse THEN m > n ELSE m < n})

IsNthChild(n, parameter, reverse) ==
    IF parameter = UNDEF THEN "TypeError"
    ELSE IF parameter = <<"n">> THEN "true"
    ELSE LET p == IF parameter = <<"o", "d", "d">> THEN <<"2", "n", "+", "1">>
                  ELSE IF parameter = <<"e", "v", "e", "n">> THEN <<"2", "n">>
                  ELSE parameter
             parameters == SplitAt(p, {i \in 1..Len(p) : p[i] = "n"}, 1, 1)
             a == IF parameters[1] # <<>> THEN ParseInt(parameters[1]) ELSE <<0>>
             b == IF Len(parameters) >= 2 /\ parameters[2] # <<>>
                  THEN ParseInt(parameters[2]) ELSE <<0>>
         IN IF n = NoNode THEN "TypeError"
            ELSE B(NthTest(Counter(n, reverse), a, b))

(***************************************************************************)
(* isMatchedByPseudoSelector, lines 252-355.  The pseudo-classes of the    *)
(* user interface and of the language (link, visited, active, hover,       *)
(* focus, target, lang, enabled, disabled, checked) read host state the    *)
(* document of this model does not carry; no selector of the model names   *)
(* them.  A name the table does not hold is called as undefined.           *)
(***************************************************************************)
RECURSIVE IsMatchedByCompoundSelector(_, _)

\* the first (last, when reverse) element child of the parent of n, in a sequence
FirstElementChild(n, reverse) ==
    LET kids == {m \in ChildNodes(ParentNode(n)) : doc.nodeType[m] = ELEMENT_NODE}
    IN IF kids = {} THEN <<>>
       ELSE <<CHOOSE m \in kids : \A k \in kids : IF reverse THEN k <= m ELSE m <= k>>

\* lines 289-296: children holds the first element child alone, since the
\* callback ends the loop (return false) right after the first push
OnlyOf(n, children) == B(Len(children) = 1 /\ n = children[1])

\* line 353 with the parameter parsed (c)
NotMatched(n, c) ==
    IF c.error # "" THEN c.error
    ELSE Not(IsMatchedByCompoundSelector(n, Compound(c)))

IsMatchedByPseudoSelector(name, n, parameter, typeSelector) ==
    CASE name = <<"r", "o", "o", "t">> ->
            IF n = NoNode THEN "TypeError"
            ELSE B(ToLowerCase(doc.nodeName[n]) = <<"h", "t", "m", "l">>)
      [] name = <<"n", "t", "h", "-", "c", "h", "i", "l", "d">> ->
            IsNthChild(n, parameter, FALSE)
      [] name = <<"n", "t", "h", "-", "l", "a", "s", "t", "-", "c", "h", "i", "l", "d">> ->
            IsNthChild(n, parameter, TRUE)
      [] name \in {<<"n", "t", "h", "-", "o", "f", "-", "t", "y", "p", "e">>,
                   <<"n", "t", "h", "-", "l", "a", "s", "t", "-", "o", "f", "-", "t", "y", "p", "e">>} ->
            "ReferenceError"
      [] name = <<"f", "i", "r", "s", "t", "-", "c", "h", "i", "l", "d">> ->
            IF n = NoNode \/ ParentNode(n) = NoNode THEN "TypeError"
            ELSE B(<<n>> = FirstElementChild(n, FALSE))
      [] name = <<"l", "a", "s", "t", "-", "c", "h", "i", "l", "d">> ->
            IF n = NoNode \/ ParentNode(n) = NoNode THEN "TypeError"
            ELSE B(<<n>> = FirstElementChild(n, TRUE))
      [] name = <<"o", "n", "l", "y", "-", "c", "h", "i", "l", "d">> ->
            IF n = NoNode \/ ParentNode(n) = NoNode THEN "TypeError"
            ELSE OnlyOf(n, FirstElementChild(n, FALSE))
      [] name = <<"o", "n", "l", "y", "-", "o", "f", "-", "t", "y", "p", "e">> ->
            IF n = NoNode \/ ParentNode(n) = NoNode THEN "TypeError"
            ELSE IF FirstElementChild(n, FALSE) = <<>> THEN "false"
            ELSE IF parameter = UNDEF THEN "TypeError"
            ELSE "ReferenceError"
      [] name = <<"e", "m", "p", "t", "y">> ->
            IF n = NoNode THEN "TypeError" ELSE B(ChildNodes(n) = {})
      [] name = <<"n", "o", "t">> ->
            IF parameter = UNDEF THEN "TypeError"
            ELSE NotMatched(n, ParseCompoundSelector(parameter, UNDEF))
      [] OTHER -> "TypeError"

(***************************************************************************)
(* isMatchedByCompoundSelector, lines 379-404.                             *)
(***************************************************************************)
\* lines 388-393: r is the result of the first attribute selector
RECURSIVE AllAttributes(_, _)
AttributesAfter(r, n, attributes) ==
    IF r = "true" THEN AllAttributes(n, attributes) ELSE r

AllAttributes(n, attributes) ==
    IF attributes = <<>> THEN "true"
    ELSE AttributesAfter(
             IsMatchedByAttributeSelector(Head(attributes).operator, n,
                                          Head(attributes).attribute,
                                          Head(attributes).value),
             n, Tail(attributes))

\* lines 396-401: r is the result of the first pseudo selector
RECURSIVE AllPseudos(_, _, _)
PseudosAfter(r, n, pseudos, typeSelector) ==
    IF r = "true" THEN AllPseudos(n, pseudos, typeSelector) ELSE r

AllPseudos(n, pseudos, typeSelector) ==
    IF pseudos = <<>> THEN "true"
    ELSE PseudosAfter(
             IsMatchedByPseudoSelector(Head(pseudos).name, n, Head(pseudos).parameter,
                                       typeSelector),
             n, Tail(pseudos), typeSelector)

\* lines 395-402: r is the result of the attribute selectors
CompoundAfter(r, n, c) ==
    IF r = "true" THEN AllPseudos(n, c.pseudoSelectors, c.typeSelector) ELSE r

IsMatchedByCompoundSelector(n, c) ==
    IF c.idSelector \notin {<<>>, NULL, UNDEF} /\ n = NoNode THEN "TypeError"
    ELSE IF c.idSelector \notin {<<>>, NULL, UNDEF} /\ c.idSelector # Prop(n, IdName)
         THEN "false"
    ELSE IF c.typeSelector # <<"*">> /\ n = NoNode THEN "TypeError"
    ELSE IF /\ c.typeSelector # <<"*">>
            /\ ToLowerCase(c.typeSelector) # ToLowerCase(doc.nodeName[n])
         THEN "false"
    ELSE CompoundAfter(AllAttributes(n, c.attributeSelectors), n, c)

(***************************************************************************)
(* isDescendantOf, lines 362-371: the walk starts at the parent of the     *)
(* parent of the descendant.                                               *)
(***************************************************************************)
RECURSIVE AscendTo(_, _)
\* the loop of line 364 from current: whether some parentNode above it is the target
AscendTo(current, target) ==
    IF ParentNode(current) = NoNode THEN FALSE
    ELSE ParentNode(current) = target \/ AscendTo(ParentNode(current), target)

IsDescendantOf(descendant, ctx) ==
    IF descendant = NoNode THEN "TypeError"
    ELSE IF ParentNode(descendant) = NoNode THEN "TypeError"
    ELSE B(AscendTo(ParentNode(descendant), ctx))

(***************************************************************************)
(* isMatchedByComplexSelector, lines 412-458.  A walk is the current node  *)
(* and the result so far.                                                  *)
(***************************************************************************)

\* lines 435 and 443: the nearest preceding sibling that is an element, or null
RECURSIVE PreviousElement(_)
PreviousElement(n) ==
    LET p == PreviousSibling(n)
    IN IF p = NoNode \/ doc.nodeType[p] = ELEMENT_NODE THEN p ELSE PreviousElement(p)

\* A walk: the current node and the result so far.
At(current, result) == [current |-> current, result |-> result]

\* lines 419-426: the descendant combinator; m is the result of the
\* compound selector on the parent p
RECURSIVE Ascend(_, _)
AscendAfter(m, p, compoundSelector) ==
    IF m = "false" THEN Ascend(p, compoundSelector) ELSE At(p, m)

Ascend(current, compoundSelector) ==
    IF current = NoNode THEN At(current, "TypeError")
    ELSE IF ParentNode(current) = Document THEN At(Document, "false")
    ELSE AscendAfter(IsMatchedByCompoundSelector(ParentNode(current), compoundSelector),
                     ParentNode(current), compoundSelector)

\* lines 430 and 438: current === null || !isMatchedByCompoundSelector(...)
NullOrNot(p, compoundSelector) ==
    At(p, IF p = NoNode THEN "false"
          ELSE IsMatchedByCompoundSelector(p, compoundSelector))

\* lines 443-450: the loop stops at the nearest preceding element sibling,
\* where the test of line 444 is never reached; only null fails
SubsequentSibling(p) == At(p, B(p # NoNode))

\* lines 417-452: one compound selector and the combinator at its index;
\* combinator is "" when the combinators have no such index (undefined)
Step(current, combinator, compoundSelector) ==
    CASE combinator = " " -> Ascend(current, compoundSelector)
      [] combinator = ">" ->
            IF current = NoNode THEN At(current, "TypeError")
            ELSE NullOrNot(ParentNode(current), compoundSelector)
      [] combinator = "+" ->
            IF current = NoNode THEN At(current, "TypeError")
            ELSE NullOrNot(PreviousElement(current), compoundSelector)
      [] combinator = "~" ->
            IF current = NoNode THEN At(current, "TypeError")
            ELSE SubsequentSibling(PreviousElement(current))
      [] OTHER -> At(current, "true")

\* the combinator at the index, "" when there is none
CombinatorAt(complexSelector, index) ==
    IF index <= Len(complexSelector.combinators)
    THEN complexSelector.combinators[index] ELSE ""

\* line 416 and 456: the compound selectors from the index down to the
\* first; s is the walk after the step at the index
RECURSIVE Walk(_, _, _)
WalkAfter(s, complexSelector, index) ==
    IF s.result = "true" THEN Walk(s.current, complexSelector, index) ELSE s.result

Walk(current, complexSelector, index) ==
    IF index = 0 THEN "true"
    ELSE WalkAfter(Step(current, CombinatorAt(complexSelector, index),
                        complexSelector.compoundSelectors[index]),
                   complexSelector, index - 1)

IsMatchedByComplexSelector(n, complexSelector) ==
    Walk(n, complexSelector, Len(complexSelector.compoundSelectors))

(***************************************************************************)
(* find, lines 479-530, and match, lines 554-579.  The context argument    *)
(* is undefined, an element or an array of nodes (a selector string as     *)
(* context, which find resolves by a nested call, is not drawn).           *)
(***************************************************************************)
None == [status |-> "none"]
Returned(v) == [status |-> "returned", value |-> v]
Thrown(e) == [status |-> "thrown", error |-> e]

\* lines 481-492 and 555-565
ResolveContexts(ctx) ==
    IF ctx.kind = "element" THEN <<ctx.node>>
    ELSE IF ctx.kind = "array" THEN ctx.nodes
    ELSE <<Document>>

Idle == <<doc, strict, selector, context, element>>
Locals == <<parsedSelectors, contexts, si, ci, lastCompoundSelector,
            elementsToBeFiltered, matchedElements>>

\* the locals of a call that has ended
Cleared ==
    /\ parsedSelectors' = <<>>
    /\ contexts' = <<>>
    /\ si' = 0
    /\ ci' = 0
    /\ lastCompoundSelector' = UNDEF
    /\ elementsToBeFiltered' = <<>>
    /\ matchedElements' = <<>>

\* find throws e: the call ends without a result
FindThrows(e) ==
    /\ findResult' = Thrown(e)
    /\ pc' = "idle"
    /\ Cleared
    /\ UNCHANGED <<Idle, matchResult>>

\* lines 480-492 with the selector parsed (p): a parse error ends the
\* call; otherwise the contexts are resolved
FindParsed(p) ==
    IF p.error # "" THEN FindThrows(p.error)
    ELSE /\ parsedSelectors' = p.parsedSelectors
         /\ contexts' = ResolveContexts(context)
         /\ matchedElements' = <<>>
         /\ si' = 1
         /\ pc' = "find:selector"
         /\ UNCHANGED <<Idle, ci, lastCompoundSelector, elementsToBeFiltered,
                        findResult, matchResult>>

\* lines 480-492: the selector is parsed and the contexts are resolved
FindCall ==
    /\ pc = "idle"
    /\ findResult = None
    /\ FindParsed(ParseSelector(selector))

\* the compound selectors without the last
Front(compounds) == SubSeq(compounds, 1, Len(compounds) - 1)

\* line 497: the last compound selector is popped off the parsed selector
FindPop ==
    /\ pc = "find:selector"
    /\ si <= Len(parsedSelectors)
    /\ lastCompoundSelector' =
           parsedSelectors[si].compoundSelectors[Len(parsedSelectors[si].compoundSelectors)]
    /\ parsedSelectors' = [parsedSelectors EXCEPT ![si].compoundSelectors = Front(@)]
    /\ ci' = 1
    /\ pc' = "find:context"
    /\ UNCHANGED <<Idle, contexts, si, elementsToBeFiltered, matchedElements,
                   findResult, matchResult>>

\* the candidates found, or the error thrown
Found(elements) == [error |-> "", elements |-> elements]
Failed(e) == [error |-> e, elements |-> <<>>]

\* lines 509-513: the elements of seq that the compound selector matches,
\* or the error the first throwing one throws; r is the result for the first
RECURSIVE FilterCompound(_, _, _)
CompoundFiltered(r, seq, c, kept) ==
    IF r \notin {"true", "false"} THEN Failed(r)
    ELSE FilterCompound(Tail(seq), c, IF r = "true" THEN Append(kept, Head(seq)) ELSE kept)

FilterCompound(seq, c, kept) ==
    IF seq = <<>> THEN Found(kept)
    ELSE CompoundFiltered(IsMatchedByCompoundSelector(Head(seq), c), seq, c, kept)

\* line 505: m is the result of the compound selector without its id on
\* the element found, d the result of isDescendantOf, evaluated when m holds
ByIdAfter(d, found) ==
    IF d \notin {"true", "false"} THEN Failed(d)
    ELSE Found(IF d = "true" THEN <<found>> ELSE <<>>)

ByIdMatched(m, found, ctx) ==
    IF m = "true" THEN ByIdAfter(IsDescendantOf(found, ctx), found)
    ELSE ByIdAfter(m, found)

\* lines 503-507, where the engine lets line 503 assign
CandidatesById(found, last, ctx) ==
    ByIdMatched(IsMatchedByCompoundSelector(found, last), found, ctx)

\* lines 509-513
CandidatesByTag(last, ctx) ==
    FilterCompound(GetElementsByTagName(ctx, last.typeSelector), last, <<>>)

\* the last compound selector after line 504
WithoutId(last) == [last EXCEPT !.idSelector = NULL]

\* lines 502-514 with the candidates c
FindCandidatesEnd(c, last) ==
    IF c.error # "" THEN FindThrows(c.error)
    ELSE /\ lastCompoundSelector' = last
         /\ elementsToBeFiltered' = c.elements
         /\ pc' = "find:filter"
         /\ UNCHANGED <<Idle, parsedSelectors, contexts, si, ci,
                        matchedElements, findResult, matchResult>>

\* lines 502-514: the candidates of the current context.  In strict mode
\* the assignment to the undeclared variable element (line 503) throws a
\* ReferenceError; otherwise the id lookup runs and the id selector is set
\* to null (so the next context takes the branch of line 509).
FindCandidates ==
    /\ pc = "find:context"
    /\ ci <= Len(contexts)
    /\ IF lastCompoundSelector.idSelector \notin {<<>>, NULL}
       THEN IF strict THEN FindThrows("ReferenceError")
            ELSE FindCandidatesEnd(
                     CandidatesById(GetElementById(lastCompoundSelector.idSelector),
                                    WithoutId(lastCompoundSelector), contexts[ci]),
                     WithoutId(lastCompoundSelector))
       ELSE FindCandidatesEnd(CandidatesByTag(lastCompoundSelector, contexts[ci]),
                              lastCompoundSelector)

\* lines 516-520: the elements of seq that pass the chain of the complex
\* selector; r is the result for the first
RECURSIVE FilterComplex(_, _, _)
ComplexFiltered(r, seq, complexSelector, kept) ==
    IF r \notin {"true", "false"} THEN Failed(r)
    ELSE FilterComplex(Tail(seq), complexSelector,
                       IF r = "true" THEN Append(kept, Head(seq)) ELSE kept)

FilterComplex(seq, complexSelector, kept) ==
    IF seq = <<>> THEN Found(kept)
    ELSE ComplexFiltered(IsMatchedByComplexSelector(Head(seq), complexSelector),
                         seq, complexSelector, kept)

\* lines 516-526 with the filtered candidates f
FindFiltered(f) ==
    IF f.error # "" THEN FindThrows(f.error)
    ELSE /\ matchedElements' = matchedElements \o f.elements
         /\ elementsToBeFiltered' = <<>>
         /\ ci' = ci + 1
         /\ pc' = "find:context"
         /\ UNCHANGED <<Idle, parsedSelectors, contexts, si,
                        lastCompoundSelector, findResult, matchResult>>

\* lines 516-526: the candidates are filtered by the rest of the chain and
\* the ones left are added to the result
FindFilter ==
    /\ pc = "find:filter"
    /\ FindFiltered(FilterComplex(elementsToBeFiltered, parsedSelectors[si], <<>>))

\* lines 527-528: the contexts are done; the next complex selector
FindNextSelector ==
    /\ pc = "find:context"
    /\ ci > Len(contexts)
    /\ si' = si + 1
    /\ pc' = "find:selector"
    /\ UNCHANGED <<Idle, parsedSelectors, contexts, ci, lastCompoundSelector,
                   elementsToBeFiltered, matchedElements, findResult, matchResult>>

\* line 529
FindReturn ==
    /\ pc = "find:selector"
    /\ si > Len(parsedSelectors)
    /\ findResult' = Returned(matchedElements)
    /\ pc' = "idle"
    /\ Cleared
    /\ UNCHANGED <<Idle, matchResult>>

\* match throws e
MatchThrows(e) ==
    /\ matchResult' = Thrown(e)
    /\ pc' = "idle"
    /\ Cleared
    /\ UNCHANGED <<Idle, findResult>>

\* lines 555-567 with the selector parsed (p)
MatchParsed(p) ==
    IF p.error # "" THEN MatchThrows(p.error)
    ELSE /\ parsedSelectors' = p.parsedSelectors
         /\ contexts' = ResolveContexts(context)
         /\ pc' = "match:each"
         /\ UNCHANGED <<Idle, si, ci, lastCompoundSelector, elementsToBeFiltered,
                        matchedElements, findResult, matchResult>>

\* lines 555-567: the contexts are resolved and the selector is parsed
MatchCall ==
    /\ pc = "idle"
    /\ matchResult = None
    /\ MatchParsed(ParseSelector(selector))

\* lines 568-573: the chain test, once for each of the k contexts left
\* until it succeeds; r is the result for the first of them
RECURSIVE MatchContexts(_, _, _)
ContextsAfter(r, n, complexSelector, k) ==
    IF r = "false" THEN MatchContexts(n, complexSelector, k) ELSE r

MatchContexts(n, complexSelector, k) ==
    IF k = 0 THEN "false"
    ELSE ContextsAfter(IsMatchedByComplexSelector(n, complexSelector),
                       n, complexSelector, k - 1)

\* lines 567-577: the complex selectors in order until one succeeds; r is
\* the result for the first of them
RECURSIVE MatchSelectors(_, _, _)
SelectorsAfter(r, n, parsed, k) ==
    IF r = "false" THEN MatchSelectors(n, parsed, k) ELSE r

MatchSelectors(n, parsed, k) ==
    IF parsed = <<>> THEN "false"
    ELSE SelectorsAfter(MatchContexts(n, Head(parsed), k), n, Tail(parsed), k)

\* lines 567-578 with the result r of the loops
MatchEnd(r) ==
    IF r \notin {"true", "false"} THEN MatchThrows(r)
    ELSE /\ matchResult' = Returned(r = "true")
         /\ pc' = "idle"
         /\ Cleared
         /\ UNCHANGED <<Idle, findResult>>

\* lines 567-578
MatchEach ==
    /\ pc = "match:each"
    /\ MatchEnd(MatchSelectors(element, parsedSelectors, Len(contexts)))

Next ==
    \/ FindCall
    \/ FindPop
    \/ FindCandidates
    \/ FindFilter
    \/ FindNextSelector
    \/ FindReturn
    \/ MatchCall
    \/ MatchEach

(***************************************************************************)
(* The documents and the calls the model draws.                            *)
(***************************************************************************)
MaxDepth == 3
MaxSiblings == 3
MaxRow == 5
MaxCoefficient == 2
MaxOffset == 5

\* an element: its parent, tag name, id, class and title ("" when it has none)
El(parent, name, id, class, title) ==
    [parentNode |-> parent, nodeType |-> ELEMENT_NODE, nodeName |-> name,
     props |-> (IdName :> id) @@ (ClassName :> class)
                 @@ (<<"t", "i", "t", "l", "e">> :> title)
                 @@ (<<"o", "n", "c", "l", "i", "c", "k">> :> NULL)]

\* a text node
Txt(parent) ==
    [parentNode |-> parent, nodeType |-> TEXT_NODE,
     nodeName |-> <<"#", "t", "e", "x", "t">>, props |-> <<>>]

TheDocument ==
    [parentNode |-> NoNode, nodeType |-> DOCUMENT_NODE,
     nodeName |-> <<"#", "d", "o", "c", "u", "m", "e", "n", "t">>, props |-> <<>>]

Html == El(Document, <<"H", "T", "M", "L">>, <<>>, <<>>, <<>>)

\* the document whose nodes 1..Len(nodes) are the nodes given, in document order
MkDoc(nodes) ==
    LET at(n) == IF n = Document THEN TheDocument ELSE nodes[n]
        all == 0..Len(nodes)
    IN [parentNode |-> [n \in all |-> at(n).parentNode],
        nodeType |-> [n \in all |-> at(n).nodeType],
        nodeName |-> [n \in all |-> at(n).nodeName],
        props |-> [n \in all |-> at(n).props]]

Plain(parent, name) == El(parent, name, <<>>, <<>>, <<>>)

\* html > l1 > l2 > ... > lk > C: a chain of elements with the tags given
ChainDoc(labels) ==
    MkDoc(<<Html>> \o [i \in 1..Len(labels) |-> Plain(i, <<labels[i]>>)]
            \o <<Plain(Len(labels) + 1, <<"C">>)>>)

ChainDocs ==
    {ChainDoc(l) : l \in UNION {[1..k -> {"A", "B"}] : k \in 1..MaxDepth}}

\* html with the children given: "A", "B" are elements, "" is a text node
RowDoc(kinds) ==
    MkDoc(<<Html>> \o [i \in 1..Len(kinds) |->
                          IF kinds[i] = "" THEN Txt(1) ELSE Plain(1, <<kinds[i]>>)])

RowDocs ==
    {RowDoc(l) : l \in UNION {[1..k -> {"A", "B", ""}] : k \in 1..MaxSiblings}}

\* html > P > (text, A, A, ..., A): k element siblings after a text node
SiblingDoc(k) ==
    MkDoc(<<Html, Plain(1, <<"P">>), Txt(2)>> \o [i \in 1..k |-> Plain(2, <<"A">>)])

SiblingDocs == {SiblingDoc(k) : k \in 1..MaxRow}

\* html > A#x.a[title=x] > (B.a.b > A#y[title=""], text), html > B
AttributeDoc ==
    MkDoc(<<Html,
            El(1, <<"A">>, <<"x">>, <<"a">>, <<"x">>),
            El(2, <<"B">>, <<>>, <<"a", " ", "b">>, <<>>),
            El(3, <<"A">>, <<"y">>, <<>>, <<>>),
            Txt(2),
            Plain(1, <<"B">>)>>)

\* selectors of types joined by combinators
ChainSelectors ==
    {<<"a", " ", ">", " ", "b", " ", "c">>,   \* a > b c
     <<"a", " ", "b">>,   \* a b
     <<"a", ">", "b">>,   \* a>b
     <<"b", " ", "c">>,   \* b c
     <<"c">>,   \* c
     <<"a", " ", "b", " ", "c">>,   \* a b c
     <<"a", ">", "b", ">", "c">>,   \* a>b>c
     <<"*">>,   \* *
     <<" ", "c">>,   \*  c
     <<"a", ",", " ", "c">>,   \* a, c
     <<"h", "t", "m", "l", " ", ">", " ", "a">>}   \* html > a

\* selectors with the sibling combinators
RowSelectors ==
    {<<"a", "~", "b">>,   \* a~b
     <<"a", "+", "b">>,   \* a+b
     <<"a", " ", "~", " ", "b">>,   \* a ~ b
     <<"b">>,   \* b
     <<"a", "~", "b", "~", "b">>,   \* a~b~b
     <<"b", ",", "a", "~", "b">>}   \* b,a~b

\* selectors with classes, attributes with quoted values, and pseudo-classes
AttributeSelectors ==
    {<<":", "n", "o", "t", "(", ".", "a", ")">>,   \* :not(.a)
     <<":", "n", "o", "t", "(", "a", ")">>,   \* :not(a)
     <<":", "n", "o", "t", "(", "b", ")">>,   \* :not(b)
     <<".", "a">>,   \* .a
     <<".", "b">>,   \* .b
     <<":", "n", "o", "t", "(", "#", "x", ")">>,   \* :not(#x)
     <<":", "n", "o", "t", "(", "[", "t", "i", "t", "l", "e", "]", ")">>,   \* :not([title])
     <<"a", ":", "n", "o", "t", "(", "b", ")">>,   \* a:not(b)
     <<"[", "t", "i", "t", "l", "e", "=", "\"", "x", "\"", "]", "[", "c", "l", "a", "s", "s", "=", "\"", "a", "\"", "]">>,   \* [title="x"][class="a"]
     <<"[", "t", "i", "t", "l", "e", "=", "\"", "x", "\"", "]", "[", "c", "l", "a", "s", "s", "N", "a", "m", "e", "=", "\"", "a", "\"", "]">>,   \* [title="x"][className="a"]
     <<"[", "t", "i", "t", "l", "e", "=", "'", "x", "'", "]", " ", "[", "t", "i", "t", "l", "e", "=", "\"", "\"", "]">>,   \* [title='x'] [title=""]
     <<".", "a", " ", ".", "b">>,   \* .a .b
     <<"[", "c", "l", "a", "s", "s", "N", "a", "m", "e", "~", "=", "\"", "b", "\"", "]">>,   \* [className~="b"]
     <<"a", ":", "e", "m", "p", "t", "y">>,   \* a:empty
     <<":", "r", "o", "o", "t">>,   \* :root
     <<":", "f", "i", "r", "s", "t", "-", "c", "h", "i", "l", "d">>,   \* :first-child
     <<":", "l", "a", "s", "t", "-", "c", "h", "i", "l", "d">>,   \* :last-child
     <<":", "o", "n", "l", "y", "-", "c", "h", "i", "l", "d">>,   \* :only-child
     <<":", "f", "o", "o">>,   \* :foo
     <<"b", ":", "n", "t", "h", "-", "o", "f", "-", "t", "y", "p", "e", "(", "n", ")">>,   \* b:nth-of-type(n)
     <<"[", "t", "i", "t", "l", "e", "=", "\"", "x", "\\", "\"", "y", "\"", "]">>,   \* [title="x\"y"]
     <<"[", "t", "i", "t", "l", "e", "=", "'", "x", "'", "]">>,   \* [title='x']
     <<"a", "[", "t", "i", "t", "l", "e", "=", "\"", "x", "\"", "]", ",", "b", "[", "c", "l", "a", "s", "s", "N", "a", "m", "e", "=", "\"", "a", " ", "b", "\"", "]">>}   \* a[title="x"],b[className="a b"]

\* selectors whose last compound selector carries an id
IdSelectors ==
    {<<"#", "x">>,   \* #x
     <<"a", "#", "x">>,   \* a#x
     <<"#", "x", ".", "a">>,   \* #x.a
     <<"#", "y">>,   \* #y
     <<"#", "z">>,   \* #z
     <<"b", " ", "#", "y">>,   \* b #y
     <<"a", "#", "y">>,   \* a#y
     <<"#", "y", ",", " ", "#", "x">>,   \* #y, #x
     <<"b", "#", "x">>,   \* b#x
     <<"#", "x", ":", "e", "m", "p", "t", "y">>}   \* #x:empty

\* selectors with tokens outside the grammar of Selectors Level 3
TokenSelectors ==
    {<<"[", "b", "a", "d">>,   \* [bad
     <<"a", ",", " ", "[", "b", "a", "d">>,   \* a, [bad
     <<"a", ",", "[", "b", "a", "d">>,   \* a,[bad
     <<"#">>,   \* #
     <<".">>,   \* .
     <<"a", ")">>,   \* a)
     <<".", ".">>,   \* ..
     <<":", "n", "t", "h", "-", "c", "h", "i", "l", "d", "(", "3", ")">>,   \* :nth-child(3)
     <<"a", ",">>,   \* a,
     <<>>,   \* 
     <<"a", ">", ">", "c">>,   \* a>>c
     <<"[", "a", "=", "x", "]">>,   \* [a=x]
     <<":", "n", "o", "t", "(">>,   \* :not(
     <<"a", "[">>,   \* a[
     <<"!">>,   \* !
     <<"1", "a">>,   \* 1a
     <<"a", "[", "b", "=", "\"", "x", "\"", "y", "\"", "]">>,   \* a[b="x"y"]
     <<":", "n", "t", "h", "-", "c", "h", "i", "l", "d">>,   \* :nth-child
     <<":", "f", "i", "r", "s", "t", "-", "c", "h", "i", "l", "d", "(", "2", "n">>,   \* :first-child(2n
     <<"[", "a", "=", "\"", "x", "\"">>,   \* [a="x"
     <<"\t", "a">>}   \* \ta

\* the decimal digits of a number below 10
Digit(v) == CHOOSE c \in Digits : DigitValue(c) = v

\* ":nth-child(" parameter ")"
NthChild(parameter) ==
    <<":", "n", "t", "h", "-", "c", "h", "i", "l", "d", "(">> \o parameter \o <<")">>

\* the parameters An+B: A absent or 0..MaxCoefficient, B absent or -MaxOffset..MaxOffset
AnBParameters ==
    {a \o <<"n">> \o b :
        a \in {<<>>} \cup {<<Digit(v)>> : v \in 0..MaxCoefficient},
        b \in {<<>>} \cup {<<s, Digit(v)>> : s \in {"+", "-"}, v \in 0..MaxOffset}}

NthSelectors ==
    {NthChild(p) : p \in AnBParameters
                        \cup {<<"o", "d", "d">>, <<"e", "v", "e", "n">>,
                              <<"-", "n", "+", "3">>, <<"3">>, <<"a">>}}

\* "[" name operator "\"" value "\"" "]", and "[" name "]"
AttributeNames == {<<"t", "i", "t", "l", "e">>, <<"f", "o", "o">>,
                   <<"o", "n", "c", "l", "i", "c", "k">>}
Operators == {<<"=">>, <<"~", "=">>, <<"^", "=">>, <<"$", "=">>, <<"*", "=">>, <<"|", "=">>}
Values == {<<>>, <<"x">>, <<"n", "u", "l", "l">>,
           <<"u", "n", "d", "e", "f", "i", "n", "e", "d">>}

\* "[" name "]" for no operator, else "[" name operator "\"" value "\"" "]"
AttributeText(a, o, v) ==
    IF o = <<>> THEN <<"[">> \o a \o <<"]">>
    ELSE <<"[">> \o a \o o \o <<"\"">> \o v \o <<"\"", "]">>

OperatorSelectors ==
    {AttributeText(a, <<>>, <<>>) : a \in AttributeNames}
    \cup {AttributeText(a, o, v) : a \in AttributeNames, o \in Operators, v \in Values}

NoContext == [kind |-> "undefined"]
ElementContext(n) == [kind |-> "element", node |-> n]
ArrayContext(nodes) == [kind |-> "array", nodes |-> nodes]

\* the contexts drawn for a document: none, an element, an array of up to two elements
ContextsOf(d) ==
    LET els == {n \in DOMAIN d.nodeType : d.nodeType[n] = ELEMENT_NODE}
    IN {NoContext} \cup {ElementContext(n) : n \in els}

ArrayContextsOf(d) ==
    LET els == {n \in DOMAIN d.nodeType : d.nodeType[n] = ELEMENT_NODE}
    IN {ArrayContext(<<>>)} \cup {ArrayContext(<<n, m>>) : n \in els, m \in els}

\* no call has been made
Start ==
    /\ pc = "idle"
    /\ parsedSelectors = <<>>
    /\ contexts = <<>>
    /\ si = 0
    /\ ci = 0
    /\ lastCompoundSelector = UNDEF
    /\ elementsToBeFiltered = <<>>
    /\ matchedElements = <<>>
    /\ findResult = None
    /\ matchResult = None

Init ==
    /\ Start
    /\ \/ /\ doc \in ChainDocs
          /\ selector \in ChainSelectors
          /\ context \in ContextsOf(doc)
          /\ strict = TRUE
       \/ /\ doc \in RowDocs
          /\ selector \in RowSelectors
          /\ context = NoContext
          /\ strict = TRUE
       \/ /\ doc \in SiblingDocs
          /\ selector \in NthSelectors
          /\ context = NoContext
          /\ strict = TRUE
       \/ /\ doc = AttributeDoc
          /\ selector \in AttributeSelectors \cup OperatorSelectors \cup TokenSelectors
          /\ context \in {NoContext, ElementContext(2)}
          /\ strict = TRUE
       \/ /\ doc = AttributeDoc
          /\ selector \in IdSelectors
          /\ context \in ContextsOf(doc) \cup ArrayContextsOf(doc)
          /\ strict \in BOOLEAN
    /\ element \in {n \in DOMAIN doc.nodeType : doc.nodeType[n] = ELEMENT_NODE}

Spec == Init /\ [][Next]_vars


(***************************************************************************)
(* The properties.  Each is stated over the results of the calls: find     *)
(* leaves its result in findResult, match in matchResult.                  *)
(***************************************************************************)

\* whether find returned the node
InResult(n) == \E i \in DOMAIN findResult.value : findResult.value[i] = n

\* whether the node lies inside the context (the whole document when none is given)
Inside(n, ctx) ==
    IF ctx.kind = "element" THEN IsAncestor(ctx.node, n)
    ELSE IF ctx.kind = "array" THEN \E i \in DOMAIN ctx.nodes : IsAncestor(ctx.nodes[i], n)
    ELSE TRUE

\* the elements of S inside the context, as find would return them
Selected(S) == Returned(Ordered({n \in S : Inside(n, context)}))

\* whether the element has the tag name (a lower-case type selector)
HasType(n, type) == type = <<"*">> \/ ToLowerCase(doc.nodeName[n]) = type

\* C1: match agrees with find: for an element inside the context, match
\* returns true if and only if the element is among the nodes find returns.
MatchAgreesWithFind ==
    (/\ findResult.status = "returned"
     /\ matchResult.status = "returned"
     /\ Inside(element, context))
        => (matchResult.value <=> InResult(element))

\* C2: subsequent-sibling combinator: for "a~b", an element b is selected
\* if and only if at least one of its preceding element siblings is an a.
SubsequentSiblingIsAnyPreceding ==
    (selector = <<"a", "~", "b">> /\ findResult.status = "returned")
        => \A n \in Elements :
              HasType(n, <<"b">>)
                 => (InResult(n) <=> \E m \in Elements : /\ ParentNode(m) = ParentNode(n)
                                                         /\ m < n
                                                         /\ HasType(m, <<"a">>))

\* the 1-based position of an element among the element children of its parent
Position(n) == Cardinality({m \in Elements : ParentNode(m) = ParentNode(n) /\ m <= n})

\* An+B: p = B when A = 0, else p = A*k + B for some k >= 0
Counts(a, b, p) ==
    \/ a = 0 /\ p = b
    \/ a # 0 /\ \E k \in 0..(MaxRow + MaxOffset) : p = a * k + b

\* the result of find that selects the elements at the positions An+B
Counted(a, b) == Returned(Ordered({n \in Elements : Counts(a, b, Position(n))}))

\* C3: An+B counting: ":nth-child(An+B)" selects exactly the elements at a
\* position p with (A = 0 and p = B) or (A # 0 and p = A*k + B for a k >= 0);
\* "odd" selects like "2n+1", and "-n+3" selects the positions 1, 2, 3.
NthChildCountsAnB ==
    findResult.status # "none"
        => /\ \A a \in 0..MaxCoefficient, b \in 0..MaxOffset :
                /\ selector = NthChild(<<Digit(a), "n", "+", Digit(b)>>)
                      => findResult = Counted(a, b)
                /\ selector = NthChild(<<Digit(a), "n", "-", Digit(b)>>)
                      => findResult = Counted(a, 0 - b)
           /\ selector = NthChild(<<"o", "d", "d">>) => findResult = Counted(2, 1)
           /\ selector = NthChild(<<"-", "n", "+", "3">>) => findResult = Counted(0 - 1, 3)

\* whether the class attribute of the element holds the class
HasClass(n, class) ==
    IndexOf(<<" ">> \o StringOf(Prop(n, ClassName)) \o <<" ">>,
            <<" ">> \o class \o <<" ">>) # 0

\* ":not(" x ")"
Negation(x) == <<":", "n", "o", "t", "(">> \o x \o <<")">>

\* C4: negation: find with ":not(X)" completes and selects exactly the
\* elements that do not satisfy X, for X a type, a class or an id selector;
\* ":not(.a)" selects exactly the elements that do not carry class a.
NotSelectsTheComplement ==
    findResult.status # "none"
        => /\ selector = Negation(<<".", "a">>)
                 => findResult = Selected({n \in Elements : ~HasClass(n, <<"a">>)})
           /\ selector = Negation(<<"#", "x">>)
                 => findResult = Selected({n \in Elements : Prop(n, IdName) # <<"x">>})
           /\ \A type \in {<<"a">>, <<"b">>} :
                 selector = Negation(type)
                    => findResult = Selected({n \in Elements : ~HasType(n, type)})

\* the elements of a sequence
Range(s) == {s[i] : i \in DOMAIN s}

\* -?[A-Za-z_][\w-]*
IsIdentifier(s) ==
    LET from == IF s # <<>> /\ s[1] = "-" THEN 2 ELSE 1
    IN /\ from <= Len(s)
       /\ s[from] \in Alpha \cup {"_"}
       /\ Run(s, WordChars \cup {"-"}, from) = Len(s) - from + 1

\* the type, class and id tokens of the selector group: the pieces every
\* compound selector of every complex selector splits into
Tokens(sel) ==
    UNION {UNION {{[first |-> k = 1, text |-> SimpleSelectors(c)[k]] :
                       k \in DOMAIN SimpleSelectors(c)} :
                  c \in Range(SplitCompounds(t))} :
           t \in Range(Normalize(sel).selectors)}

\* the grammar of a type selector (the first piece: empty, "*" or a name),
\* of ".class" and of "#id"; the attribute and pseudo-class pieces are left
\* to the expressions of lines 121 and 129
InGrammar(token) ==
    IF token.first THEN token.text \in {<<>>, <<"*">>} \/ IsIdentifier(token.text)
    ELSE IF token.text[1] \in {".", "#"} THEN IsIdentifier(Tail(token.text))
    ELSE TRUE

\* C5: an invalid selector fails the whole query: find and match return a
\* result only when every token of the selector group is in its grammar;
\* no token that violates the grammar is silently accepted.
InvalidTokenFailsQuery ==
    /\ findResult.status = "returned" => \A token \in Tokens(selector) : InGrammar(token)
    /\ matchResult.status = "returned" => \A token \in Tokens(selector) : InGrammar(token)

\* C6: absent attributes never match and never raise: for every operator
\* and every value, find with "[name op value]" completes, and selects no
\* element on which the attribute is absent (reads as undefined or null).
AbsentAttributeNeverMatches ==
    \A a \in AttributeNames, o \in Operators \cup {<<>>}, v \in Values :
        (selector = AttributeText(a, o, v) /\ findResult.status # "none")
            => /\ findResult.status = "returned"
               /\ \A n \in Elements : InResult(n) => Prop(n, a) \notin {UNDEF, NULL}

\* C7: id-based candidate generation: find with "#i" in a context returns
\* the element with id i if it exists and is a descendant of the context at
\* any depth, a direct child included, and the empty sequence, without an
\* error, when it does not.
IdLookupFindsDescendant ==
    \A i \in {"x", "y", "z"} :
        (/\ selector = <<"#", i>>
         /\ context.kind \in {"undefined", "element"}
         /\ findResult.status # "none")
            => findResult = Selected({n \in Elements : Prop(n, IdName) = <<i>>})

\* the values of the attribute selectors with an operator, left to right
RECURSIVE ValuesOfAttributes(_)
ValuesOfAttributes(attributes) ==
    IF attributes = <<>> THEN <<>>
    ELSE (IF Head(attributes).operator = <<>> THEN <<>> ELSE <<Head(attributes).value>>)
         \o ValuesOfAttributes(Tail(attributes))

RECURSIVE ValuesOfCompounds(_)
ValuesOfCompounds(compounds) ==
    IF compounds = <<>> THEN <<>>
    ELSE ValuesOfAttributes(Head(compounds).attributeSelectors)
         \o ValuesOfCompounds(Tail(compounds))

RECURSIVE QuotedValues(_)
QuotedValues(parsed) ==
    IF parsed = <<>> THEN <<>>
    ELSE ValuesOfCompounds(Head(parsed).compoundSelectors) \o QuotedValues(Tail(parsed))

\* the literals without their quotes
Contents(literals) ==
    [j \in DOMAIN literals |-> SubSeq(literals[j], 2, Len(literals[j]) - 1)]

\* whether every quote of the selector belongs to a literal, and no class
\* selector adds an attribute selector without one
AllValuesQuoted(sel) ==
    /\ \A i \in DOMAIN sel : sel[i] # "."
    /\ \A i \in DOMAIN ExtractStrings(sel).text : ExtractStrings(sel).text[i] \notin Quotes

\* C8: quoted-literal restoration: after the parse, the value of the j-th
\* attribute selector, left to right, is the content of the j-th quoted
\* literal of the input (for a selector whose attribute values all come
\* from literals).
LiteralsRestoredInOrder ==
    (pc = "match:each" /\ AllValuesQuoted(selector))
        => QuotedValues(parsedSelectors) = Contents(ExtractStrings(selector).strings)

\* C9 as stated: every complex selector has one compound selector more than
\* it has combinators, when parseSelector returns it and in every later
\* state while find or match uses it.
ShapeNeverModified ==
    \A i \in DOMAIN parsedSelectors :
        Len(parsedSelectors[i].compoundSelectors) = Len(parsedSelectors[i].combinators) + 1

\* whether find has popped the last compound selector of the i-th complex selector
Popped(i) ==
    \/ pc \in {"find:context", "find:filter"} /\ i <= si
    \/ pc = "find:selector" /\ i < si

\* C9: every complex selector has one compound selector more than it has
\* combinators when parseSelector returns it and while match uses it; find
\* pops the last compound selector of each complex selector in turn (line
\* 497), and from then on that one has as many compound selectors as
\* combinators.
ShapeUntilPopped ==
    \A i \in DOMAIN parsedSelectors :
        Len(parsedSelectors[i].compoundSelectors)
            = Len(parsedSelectors[i].combinators) + (IF Popped(i) THEN 0 ELSE 1)

\* find filters the candidates of the second complex selector of a group,
\* which has a combinator, after it has popped both
PoppedSecondOfGroup ==
    /\ pc = "find:filter"
    /\ si = 2
    /\ parsedSelectors[2].combinators # <<>>
    /\ Len(parsedSelectors[1].compoundSelectors) = Len(parsedSelectors[1].combinators)
    /\ Len(parsedSelectors[2].compoundSelectors) = Len(parsedSelectors[2].combinators)

\* whether nodes can be assigned to the compound selectors 1..k of a chain
\* of types so that each has its type and stands in the relation of the
\* combinator to the next, the node n being assigned to the one at k + 1
RECURSIVE SomeAssignment(_, _, _)
SomeAssignment(n, chain, k) ==
    \/ k = 0
    \/ \E m \in Elements :
          /\ IF chain.combinators[k] = ">" THEN ParentNode(n) = m ELSE IsAncestor(m, n)
          /\ HasType(m, chain.compoundSelectors[k].typeSelector)
          /\ SomeAssignment(m, chain, k - 1)

\* the elements a chain of types selects when the chain is read existentially
SomePath(chain) ==
    {n \in Elements :
        /\ HasType(n, chain.compoundSelectors[Len(chain.compoundSelectors)].typeSelector)
        /\ SomeAssignment(n, chain, Len(chain.combinators))}

\* selectors of types joined by descendant and child combinators
PathSelectors ==
    {<<"a", " ", ">", " ", "b", " ", "c">>,
     <<"a", " ", "b">>,
     <<"a", ">", "b">>,
     <<"b", " ", "c">>,
     <<"c">>,
     <<"a", " ", "b", " ", "c">>,
     <<"a", ">", "b", ">", "c">>,
     <<"h", "t", "m", "l", " ", ">", " ", "a">>}

\* C10: chain matching is existential over the tree path: find selects an
\* element if and only if some assignment of nodes to the compound
\* selectors, the element to the rightmost, satisfies every compound
\* selector and every combinator; "a > b c" selects c whenever some
\* ancestor b of c has a parent a.
ChainIsExistential ==
    (/\ selector \in PathSelectors
     /\ context = NoContext
     /\ findResult.status # "none")
        => findResult = Returned(Ordered(SomePath(ParseSelector(selector).parsedSelectors[1])))

\* the 1-based position of an element among the element children of its
\* parent, counted from the end
PositionFromEnd(n) ==
    Cardinality({m \in Elements : ParentNode(m) = ParentNode(n) /\ m >= n})

\* C11: ":only-child" selects an element if and only if it is at position 1
\* among the element children of its parent counted from the start and
\* counted from the end, that is, it has no element sibling; the first of
\* several element children is not selected.
OnlyChildHasNoSibling ==
    (/\ selector = <<":", "o", "n", "l", "y", "-", "c", "h", "i", "l", "d">>
     /\ findResult.status # "none")
        => findResult = Selected({n \in Elements : Position(n) = 1 /\ PositionFromEnd(n) = 1})

=============================================================================
